---------------------------- MODULE Spec2Model ----------------------------
(***************************************************************************)
(* The TrafficMonitor Durable Object of MLH-Axon (src/src/worker.py, and   *)
(* its duplicated revision src/src/traffic_monitor.py): the coordinator    *)
(* that keeps the list of live dashboard WebSockets, answers their control *)
(* messages and broadcasts classification messages to them.                *)
(*                                                                         *)
(* A WebSocket is a natural number (the n-th pair WebSocketPair.new()      *)
(* made).  A frame handed to ws.send is Text(s) for a plain string and     *)
(* Json(obj) for the string json.dumps(obj); the "timestamp" members       *)
(* (Date.now()) are left out of the objects, no handler reads them.        *)
(* The handlers are coroutines without an await, so each runs to its end   *)
(* before the next event is handled; broadcast is unfolded into the        *)
(* iterations of its first loop so that the state during the pass is       *)
(* visible.                                                                *)
(***************************************************************************)
EXTENDS Naturals, Sequences, FiniteSets

VARIABLES
    sessions,       \* self.sessions: the list of live server-side sockets
    session_ids,    \* self.session_ids: id(ws) -> session id
    created,        \* how many WebSocketPairs on_fetch has made so far
    broken,         \* the sockets whose transport is gone: send raises on them
    pc,             \* "idle", or "broadcast" while broadcast's first loop runs
    idx,            \* position of broadcast's list iterator in self.sessions
    dead_sessions,  \* broadcast's local list dead_sessions
    bmessage,       \* broadcast's argument
    last,           \* history: the operation handled last, and what it did
    honeypot,       \* history: the honeypot request handled last
    call            \* history: the pure function applied last, with its result

vars == <<sessions, session_ids, created, broken, pc, idx, dead_sessions,
          bmessage, last, honeypot, call>>

-----------------------------------------------------------------------------
(* Bounds of the model. *)

\* The number of WebSocket upgrades the model follows.
MaxConnects == 3

Sockets == 1..MaxConnects

-----------------------------------------------------------------------------
(* Python and runtime primitives. *)

\* x in lst
InList(x, lst) == \E i \in 1..Len(lst) : lst[i] = x

\* lst.remove(x): drops the first occurrence of x (the callers test x in lst)
ListRemove(lst, x) ==
    LET i == CHOOSE k \in 1..Len(lst) :
                 lst[k] = x /\ \A j \in 1..(k - 1) : lst[j] # x
    IN  SubSeq(lst, 1, i - 1) \o SubSeq(lst, i + 1, Len(lst))

\* d[k] = v
DictSet(d, k, v) == [x \in (DOMAIN d) \cup {k} |-> IF x = k THEN v ELSE d[x]]

\* del d[k]
DictDel(d, k) == [x \in (DOMAIN d) \ {k} |-> d[x]]

\* id(ws): the key under which on_fetch files the session id of a socket
Id(ws) == ws

\* A generator that returns the same identifier every time.
Uuid4_Repeating(n) == [uuid |-> 0]

\* str(uuid.uuid4()) of the n-th upgrade: a value no earlier call returned
Uuid4(n) == [uuid |-> n]

\* a frame that is a plain string
Text(s) == [text |-> s]

\* a frame that is json.dumps(obj)
Json(obj) == [json |-> obj]

\* one call of ws.send(frame): it returns iff the transport of ws is alive
SendAttempt(ws, frame) == [to |-> ws, frame |-> frame, ok |-> ws \notin broken]

-----------------------------------------------------------------------------
(* The state after __init__. *)

NoOp ==
    [op |-> "init", ws |-> 0, arg |-> "", pre_sessions |-> <<>>,
     pre_ids |-> <<>>, sent |-> <<>>, status |-> 0, raised |-> FALSE,
     done |-> TRUE]

\* No honeypot request has been answered yet.
NoResponse == [status |-> 0, content_type |-> "", body |-> ""]

NoRequest ==
    [stage |-> "none", label |-> "", db |-> "none", rpc |-> "none",
     handed |-> <<>>, response |-> NoResponse]

\* No pure function has been applied yet.
NoCall == [fn |-> "none"]

Init ==
    /\ sessions = <<>>
    /\ session_ids = <<>>
    /\ created = 0
    /\ broken = {}
    /\ pc = "idle"
    /\ idx = 1
    /\ dead_sessions = <<>>
    /\ bmessage = ""
    /\ last = NoOp
    /\ honeypot = NoRequest
    /\ call = NoCall

-----------------------------------------------------------------------------
(* on_fetch: the WebSocket upgrade. *)

\* The values request.headers.get("Upgrade") takes; "<absent>" is None.
UpgradeHeaders == {"websocket", "WebSocket", "h2c", "<absent>"}

\* A handshake the exact comparison of line 19 lets through that it should not.
IsUpgrade_AnyCase(upgrade) == upgrade \in {"websocket", "WebSocket"}

\* request.headers.get("Upgrade") == "websocket"
IsUpgrade(upgrade) == upgrade = "websocket"

\* A confirmation that carries an identifier generated anew, not the stored one.
Confirmation_Regenerated(session_id) ==
    Json([type |-> "connected",
          session_id |-> Uuid4(session_id.uuid + MaxConnects)])

\* json.dumps({"type": "connected", "timestamp": ..., "session_id": session_id})
Confirmation(session_id) ==
    Json([type |-> "connected", session_id |-> session_id])

on_fetch(upgrade) ==
    /\ pc = "idle"
    /\ \/ /\ IsUpgrade(upgrade)
          /\ created < MaxConnects
          /\ \E alive \in BOOLEAN :
               LET server == created + 1
                   session_id == Uuid4(created + 1)
                   confirmation == Confirmation(session_id)
               IN  /\ created' = created + 1
                   /\ broken' = IF alive THEN broken ELSE broken \cup {server}
                   /\ sessions' = Append(sessions, server)
                   /\ session_ids' = DictSet(session_ids, Id(server), session_id)
                   /\ last' = [op |-> "fetch", ws |-> server, arg |-> upgrade,
                               pre_sessions |-> sessions,
                               pre_ids |-> session_ids,
                               sent |-> <<[to |-> server, frame |-> confirmation,
                                           ok |-> alive]>>,
                               status |-> 101, raised |-> FALSE, done |-> TRUE]
          /\ UNCHANGED <<pc, idx, dead_sessions, bmessage>>
       \/ /\ ~IsUpgrade(upgrade)
          /\ last' = [op |-> "fetch", ws |-> 0, arg |-> upgrade,
                      pre_sessions |-> sessions, pre_ids |-> session_ids,
                      sent |-> <<>>, status |-> 400, raised |-> FALSE,
                      done |-> TRUE]
          /\ UNCHANGED <<sessions, session_ids, created, broken, pc, idx,
                         dead_sessions, bmessage>>
    /\ UNCHANGED <<honeypot, call>>

-----------------------------------------------------------------------------
(* on_webSocketMessage: a control message from a dashboard. *)

P_Ping == "{\"type\": \"ping\"}"
P_GetStats == "{\"type\": \"get_stats\"}"
P_Filter == "{\"type\": \"filter\", \"prediction\": \"attack\"}"
P_Subscribe == "{\"type\": \"subscribe\"}"
P_NoType == "{}"
P_Array == "[\"ping\"]"
P_Null == "null"
P_Plain == "hello"
P_Truncated == "{\"type\": \"ping\""

\* The payloads the model delivers: every branch of the handler has one.
Payloads ==
    {P_Ping, P_GetStats, P_Filter, P_Subscribe, P_NoType, P_Array, P_Null,
     P_Plain, P_Truncated}

\* json.loads on the payloads above: the Python type of the value and, for
\* a dict, the dict; "JSONDecodeError" when the text is not JSON.
JsonLoads(message) ==
    CASE message = P_Ping -> [pytype |-> "dict", value |-> [type |-> "ping"]]
      [] message = P_GetStats ->
             [pytype |-> "dict", value |-> [type |-> "get_stats"]]
      [] message = P_Filter ->
             [pytype |-> "dict",
              value |-> [type |-> "filter", prediction |-> "attack"]]
      [] message = P_Subscribe ->
             [pytype |-> "dict", value |-> [type |-> "subscribe"]]
      [] message = P_NoType -> [pytype |-> "dict", value |-> <<>>]
      [] message = P_Array -> [pytype |-> "list", value |-> <<>>]
      [] message = P_Null -> [pytype |-> "NoneType", value |-> <<>>]
      [] OTHER -> [pytype |-> "JSONDecodeError", value |-> <<>>]

\* data.get(key, default) on a dict
DictGet(data, key, default) ==
    IF key \in DOMAIN data THEN data[key] ELSE default

\* str(e) of the exception a send on a dead transport raises
SendErrorText == "<send error>"

\* str(e) of the AttributeError data.get raises when data is no dict
AttributeErrorText(pytype) ==
    "'" \o pytype \o "' object has no attribute 'get'"

\* The object the if/elif chain on msg_type replies with.
ReplyFor(msg_type, live) ==
    IF msg_type = "ping" THEN [type |-> "pong"]
    ELSE IF msg_type = "get_stats"
    THEN [type |-> "stats", total_connections |-> live]
    ELSE IF msg_type = "filter"
    THEN [type |-> "ack", message |-> "Filter applied"]
    ELSE [type |-> "error",
          message |-> "Unknown message type: " \o msg_type, code |-> 400]

\* The object the except Exception clause replies with.
Error500(text) == [type |-> "error", message |-> text, code |-> 500]

\* An echo that drops the prefix.
EchoFrame_NoPrefix(message) == Text(message)

\* f"Echo: {message}"
EchoFrame(message) == Text("Echo: " \o message)

\* The sends the handler makes for this message, in order.  A send that
\* raises inside the try block is caught by except Exception, whose own
\* send then raises too; a send that raises inside an except clause leaves
\* the handler.
MessageSends(ws, message) ==
    LET data == JsonLoads(message)
        msg_type == DictGet(data.value, "type", "")
        reply == SendAttempt(ws, Json(ReplyFor(msg_type, Len(sessions))))
    IN  IF data.pytype = "JSONDecodeError"
        THEN <<SendAttempt(ws, EchoFrame(message))>>
        ELSE IF data.pytype # "dict"
        THEN <<SendAttempt(ws, Json(Error500(AttributeErrorText(data.pytype))))>>
        ELSE IF reply.ok
        THEN <<reply>>
        ELSE <<reply, SendAttempt(ws, Json(Error500(SendErrorText)))>>

\* A handler that puts a sender it does not know back into the live set.
on_webSocketMessage_Readmits(ws, message) ==
    /\ pc = "idle"
    /\ LET sends == MessageSends(ws, message)
       IN  last' = [op |-> "message", ws |-> ws, arg |-> message,
                    pre_sessions |-> sessions, pre_ids |-> session_ids,
                    sent |-> sends, status |-> 0,
                    raised |-> ~sends[Len(sends)].ok, done |-> TRUE]
    /\ sessions' = IF InList(ws, sessions) THEN sessions
                   ELSE Append(sessions, ws)
    /\ UNCHANGED <<session_ids, created, broken, pc, idx, dead_sessions,
                   bmessage>>
    /\ UNCHANGED <<honeypot, call>>

\* A handler that drops the sender from the live set when its send fails.
on_webSocketMessage_DropsSender(ws, message) ==
    /\ pc = "idle"
    /\ LET sends == MessageSends(ws, message)
       IN  /\ last' = [op |-> "message", ws |-> ws, arg |-> message,
                       pre_sessions |-> sessions, pre_ids |-> session_ids,
                       sent |-> sends, status |-> 0,
                       raised |-> FALSE, done |-> TRUE]
           /\ sessions' = IF ~sends[Len(sends)].ok /\ InList(ws, sessions)
                          THEN ListRemove(sessions, ws) ELSE sessions
    /\ UNCHANGED <<session_ids, created, broken, pc, idx, dead_sessions,
                   bmessage>>
    /\ UNCHANGED <<honeypot, call>>

on_webSocketMessage(ws, message) ==
    /\ pc = "idle"
    /\ LET sends == MessageSends(ws, message)
       IN  last' = [op |-> "message", ws |-> ws, arg |-> message,
                    pre_sessions |-> sessions, pre_ids |-> session_ids,
                    sent |-> sends, status |-> 0,
                    raised |-> ~sends[Len(sends)].ok, done |-> TRUE]
    /\ UNCHANGED <<sessions, session_ids, created, broken, pc, idx,
                   dead_sessions, bmessage>>
    /\ UNCHANGED <<honeypot, call>>

-----------------------------------------------------------------------------
(* on_webSocketClose and on_webSocketError: the disconnect. *)

\* A disconnect that drops the identifier outside the test ws in self.sessions.
AfterDisconnect_IdOutsideGuard(live, ids, ws) ==
    [sessions |-> IF InList(ws, live) THEN ListRemove(live, ws) ELSE live,
     session_ids |-> IF Id(ws) \in DOMAIN ids THEN DictDel(ids, Id(ws)) ELSE ids]

\* The body both handlers share, as a function of the state:
\* if ws in self.sessions: remove it, and del its id if it has one.
AfterDisconnect(live, ids, ws) ==
    IF InList(ws, live)
    THEN [sessions |-> ListRemove(live, ws),
          session_ids |-> IF Id(ws) \in DOMAIN ids
                          THEN DictDel(ids, Id(ws)) ELSE ids]
    ELSE [sessions |-> live, session_ids |-> ids]

\* A disconnect that is handled while a broadcast pass is under way.
Disconnect_DuringPass(ws, op) ==
    /\ LET after == AfterDisconnect(sessions, session_ids, ws)
       IN  /\ sessions' = after.sessions
           /\ session_ids' = after.session_ids
    /\ last' = IF pc = "idle"
               THEN [op |-> op, ws |-> ws, arg |-> "",
                     pre_sessions |-> sessions, pre_ids |-> session_ids,
                     sent |-> <<>>, status |-> 0, raised |-> FALSE,
                     done |-> TRUE]
               ELSE last
    /\ UNCHANGED <<created, broken, pc, idx, dead_sessions, bmessage>>
    /\ UNCHANGED <<honeypot, call>>

\* The handlers run one at a time: broadcast has no await, so no event is
\* handled between its start and its return.
Disconnect(ws, op) ==
    /\ pc = "idle"
    /\ LET after == AfterDisconnect(sessions, session_ids, ws)
       IN  /\ sessions' = after.sessions
           /\ session_ids' = after.session_ids
    /\ last' = [op |-> op, ws |-> ws, arg |-> "",
                pre_sessions |-> sessions, pre_ids |-> session_ids,
                sent |-> <<>>, status |-> 0, raised |-> FALSE, done |-> TRUE]
    /\ UNCHANGED <<created, broken, pc, idx, dead_sessions, bmessage>>
    /\ UNCHANGED <<honeypot, call>>

on_webSocketClose(ws) == Disconnect(ws, "close")

on_webSocketError(ws) == Disconnect(ws, "error")

-----------------------------------------------------------------------------
(* broadcast. *)

B_Attack == "{\"type\": \"classification\", \"prediction\": \"attack\"}"
B_Legit == "{\"type\": \"classification\", \"prediction\": \"legit\"}"

\* The pre-serialized messages the model broadcasts.
BroadcastMessages == {B_Attack, B_Legit}

\* A second loop that removes nothing.
PruneDead_Nothing(live, dead) == live

\* A second loop that stops after its first iteration.
PruneDead_FirstOnly(live, dead) ==
    IF dead # <<>> /\ InList(Head(dead), live)
    THEN ListRemove(live, Head(dead)) ELSE live

\* The second loop: for session in dead_sessions: if session in
\* self.sessions: self.sessions.remove(session)
RECURSIVE PruneDead(_, _)
PruneDead(live, dead) ==
    IF dead = <<>> THEN live
    ELSE PruneDead(IF InList(Head(dead), live)
                   THEN ListRemove(live, Head(dead)) ELSE live,
                   Tail(dead))

\* The call: dead_sessions = [] and the iterator over self.sessions.  The
\* history also keeps which transports were dead when the call started.
broadcast_begin(message) ==
    /\ pc = "idle"
    /\ pc' = "broadcast"
    /\ idx' = 1
    /\ dead_sessions' = <<>>
    /\ bmessage' = message
    /\ last' = [op |-> "broadcast", ws |-> 0, arg |-> message,
                pre_sessions |-> sessions, pre_ids |-> session_ids,
                sent |-> <<>>, status |-> 0, raised |-> FALSE, done |-> FALSE,
                pre_broken |-> broken]
    /\ UNCHANGED <<sessions, session_ids, created, broken>>

\* broadcast called by a holder of the coordinator's stub.
broadcast(message) ==
    /\ broadcast_begin(message)
    /\ UNCHANGED <<honeypot, call>>

\* A first loop that removes the failing session at once, under the iterator.
broadcast_send_EagerRemove ==
    /\ pc = "broadcast"
    /\ idx <= Len(sessions)
    /\ LET session == sessions[idx]
           attempt == SendAttempt(session, Text(bmessage))
       IN  /\ last' = [last EXCEPT !.sent = Append(@, attempt)]
           /\ sessions' = IF attempt.ok THEN sessions
                          ELSE ListRemove(sessions, session)
    /\ idx' = idx + 1
    /\ UNCHANGED <<session_ids, created, broken, pc, bmessage, dead_sessions>>
    /\ UNCHANGED <<honeypot, call>>

\* A first loop without the try: the exception of a failing send leaves the call.
broadcast_send_NoTry ==
    /\ pc = "broadcast"
    /\ idx <= Len(sessions)
    /\ LET session == sessions[idx]
           attempt == SendAttempt(session, Text(bmessage))
       IN  IF attempt.ok
           THEN /\ last' = [last EXCEPT !.sent = Append(@, attempt)]
                /\ idx' = idx + 1
                /\ UNCHANGED <<pc, bmessage>>
           ELSE /\ last' = [last EXCEPT !.sent = Append(@, attempt),
                                        !.raised = TRUE, !.done = TRUE]
                /\ idx' = 1
                /\ pc' = "idle"
                /\ bmessage' = ""
    /\ UNCHANGED <<sessions, session_ids, created, broken, dead_sessions>>
    /\ UNCHANGED <<honeypot, call>>

\* One iteration of for session in self.sessions: try send, except append.
broadcast_send ==
    /\ pc = "broadcast"
    /\ idx <= Len(sessions)
    /\ LET session == sessions[idx]
           attempt == SendAttempt(session, Text(bmessage))
       IN  /\ last' = [last EXCEPT !.sent = Append(@, attempt)]
           /\ dead_sessions' = IF attempt.ok THEN dead_sessions
                               ELSE Append(dead_sessions, session)
    /\ idx' = idx + 1
    /\ UNCHANGED <<sessions, session_ids, created, broken, pc, bmessage>>
    /\ UNCHANGED <<honeypot, call>>

\* The iterator is exhausted: the second loop runs and the call returns.
broadcast_prune ==
    /\ pc = "broadcast"
    /\ idx > Len(sessions)
    /\ sessions' = PruneDead(sessions, dead_sessions)
    /\ pc' = "idle"
    /\ idx' = 1
    /\ dead_sessions' = <<>>
    /\ bmessage' = ""
    /\ last' = [last EXCEPT !.done = TRUE]
    /\ UNCHANGED <<session_ids, created, broken>>
    /\ UNCHANGED <<honeypot, call>>

-----------------------------------------------------------------------------
(* classify_request (src/src/honeypot.py).  A feature bundle is the dict   *)
(* extract_features builds, with the members the classifier reads.  Real   *)
(* numbers are fixed-point: path_entropy is in hundredths (the extractor   *)
(* rounds it to 2 places), a confidence is in ten-thousandths.             *)

\* One signal of the classifier that fired: its points and its reason tag.
Hit(points, reason) == <<[points |-> points, reason |-> reason]>>

BotHit(features) ==
    IF features.ua_parsed.is_bot THEN Hit(30, "bot_user_agent") ELSE <<>>

\* An injection branch whose high tier adds the medium tier on top.
SqlHit_BothTiers(features) ==
    IF features.sql_injection.has_sql_pattern
    THEN IF features.sql_injection.risk_level = "high"
         THEN Hit(40, "sql_injection_high") \o Hit(25, "sql_injection_medium")
         ELSE IF features.sql_injection.risk_level = "medium"
         THEN Hit(25, "sql_injection_medium")
         ELSE <<>>
    ELSE <<>>

SqlHit(features) ==
    IF features.sql_injection.has_sql_pattern
    THEN IF features.sql_injection.risk_level = "high"
         THEN Hit(40, "sql_injection_high")
         ELSE IF features.sql_injection.risk_level = "medium"
         THEN Hit(25, "sql_injection_medium")
         ELSE <<>>
    ELSE <<>>

TraversalHit(features) ==
    IF features.path_traversal.has_traversal
    THEN IF features.path_traversal.risk_level = "high"
         THEN Hit(40, "path_traversal_high")
         ELSE IF features.path_traversal.risk_level = "medium"
         THEN Hit(25, "path_traversal_medium")
         ELSE <<>>
    ELSE <<>>

\* A sensitive-file branch that appends the reason and forgets the points.
SensitiveHit_NoPoints(features) ==
    IF features.sensitive_files.accesses_sensitive
    THEN Hit(0, "sensitive_file_access") ELSE <<>>

SensitiveHit(features) ==
    IF features.sensitive_files.accesses_sensitive
    THEN Hit(35, "sensitive_file_access") ELSE <<>>

ExploitHit(features) ==
    IF features.common_exploits.has_exploits
    THEN IF features.common_exploits.risk_level = "high"
         THEN Hit(35, "exploit_patterns_high")
         ELSE IF features.common_exploits.risk_level = "medium"
         THEN Hit(20, "exploit_patterns_medium")
         ELSE <<>>
    ELSE <<>>

\* An entropy test that fires at 4.5 already.
EntropyHit_AtThreshold(features) ==
    IF features.path_entropy >= 450 THEN Hit(20, "high_entropy") ELSE <<>>

\* features["path_entropy"] > 4.5
EntropyHit(features) ==
    IF features.path_entropy > 450 THEN Hit(20, "high_entropy") ELSE <<>>

\* features["path_chars"].get("suspicious_chars"): None when the key is missing
SuspiciousHit(features) ==
    IF DictGet(features.path_chars, "suspicious_chars", FALSE)
    THEN Hit(15, "suspicious_chars") ELSE <<>>

ReputationHit(cf_bot_score) ==
    IF cf_bot_score < 30 THEN Hit(20, "cf_bot_score_low") ELSE <<>>

\* The signals that fired, in the order the function tests them.
Hits(features, cf_bot_score) ==
    BotHit(features) \o SqlHit(features) \o TraversalHit(features)
        \o SensitiveHit(features) \o ExploitHit(features)
        \o EntropyHit(features) \o SuspiciousHit(features)
        \o ReputationHit(cf_bot_score)

\* score after the += of every hit
RECURSIVE Points(_)
Points(hits) ==
    IF hits = <<>> THEN 0 ELSE Head(hits).points + Points(Tail(hits))

\* reasons after the append of every hit
Reasons(hits) == [i \in 1..Len(hits) |-> hits[i].reason]

\* A threshold that is strict.
IsAttack_Strict(score) == score > 40

\* is_attack = score >= 40
IsAttack(score) == score >= 40

\* A confidence without the min.
Confidence_Unclamped(score) == score * 100

\* min(score / 100, 1.0), in ten-thousandths
Confidence(score) == IF score * 100 < 100 * 100 THEN score * 100 ELSE 100 * 100

\* round(x, 3) of a value in ten-thousandths: the nearest multiple of 10
Round3(x) == ((x + 5) \div 10) * 10

classify_request(features, cf_bot_score) ==
    LET hits == Hits(features, cf_bot_score)
        score == Points(hits)
    IN  [label |-> IF IsAttack(score) THEN "attack" ELSE "legit",
         confidence |-> Round3(Confidence(score)),
         score |-> score,
         bot_score |-> cf_bot_score,
         reasons |-> Reasons(hits)]

-----------------------------------------------------------------------------
(* handle_honeypot_request (src/src/honeypot.py): classify, try to store,  *)
(* try to broadcast, answer.  honeypot is the history of the request       *)
(* handled last: its verdict, how the D1 write and the call of the         *)
(* coordinator ended, what was handed to broadcast and on which instance,  *)
(* and the response.  The request is one at a time, as the broadcast is.   *)

\* A request that fires no signal.
CleanFeatures ==
    [ua_parsed |-> [is_bot |-> FALSE],
     sql_injection |-> [has_sql_pattern |-> FALSE, risk_level |-> "low"],
     path_traversal |-> [has_traversal |-> FALSE, risk_level |-> "low"],
     sensitive_files |-> [accesses_sensitive |-> FALSE],
     common_exploits |-> [has_exploits |-> FALSE, risk_level |-> "low"],
     path_entropy |-> 350,
     path_chars |-> [suspicious_chars |-> FALSE]]

\* The requests the coordinator model serves: a clean one with the default
\* reputation 50, and an injection from a client of reputation 15.
HoneypotRequests ==
    {[features |-> CleanFeatures, cf_bot_score |-> 50],
     [features |-> [CleanFeatures EXCEPT
                       !.sql_injection = [has_sql_pattern |-> TRUE,
                                          risk_level |-> "high"]],
      cf_bot_score |-> 15]}

\* The message handed to stub.broadcast, serialized; of its members the
\* model keeps "type" and "prediction".
ClassificationMessage(prediction) ==
    IF prediction.label = "attack" THEN B_Attack ELSE B_Legit

\* An instance of its own for the honeypot's broadcasts.
HoneypotInstance_Separate == "honeypot"

\* env.TRAFFIC_MONITOR.idFromName("global") of handle_honeypot_request
HoneypotInstance == "global"

\* env.TRAFFIC_MONITOR.idFromName("global") of the router's /ws branch: the
\* instance whose sessions this model follows
ObserverInstance == "global"

\* A response that tells the verdict and the failures apart.
HoneypotResponse_Telling(label, db, rpc) ==
    IF label = "attack" \/ db = "failed" \/ rpc = "failed"
    THEN [status |-> 500, content_type |-> "text/plain", body |-> "Error"]
    ELSE [status |-> 200, content_type |-> "text/plain", body |-> "OK"]

\* Response.new("OK", status=200, headers={"Content-Type": "text/plain"})
HoneypotResponse(label, db, rpc) ==
    [status |-> 200, content_type |-> "text/plain", body |-> "OK"]

\* Up to the await of stub.broadcast.  db is how the INSERT ended, rpc
\* whether the call reached the coordinator; both exceptions are caught.
handle_honeypot_request(request, db, rpc) ==
    /\ pc = "idle"
    /\ honeypot.stage # "awaiting"
    /\ LET prediction == classify_request(request.features, request.cf_bot_score)
           message == ClassificationMessage(prediction)
           handed == <<[instance |-> HoneypotInstance, message |-> message]>>
       IN  IF rpc = "ok" /\ HoneypotInstance = ObserverInstance
           THEN /\ broadcast_begin(message)
                /\ honeypot' = [stage |-> "awaiting", label |-> prediction.label,
                                db |-> db, rpc |-> rpc, handed |-> handed,
                                response |-> NoResponse]
           ELSE /\ honeypot' = [stage |-> "done", label |-> prediction.label,
                                db |-> db, rpc |-> rpc, handed |-> handed,
                                response |-> HoneypotResponse(prediction.label, db, rpc)]
                /\ UNCHANGED <<sessions, session_ids, created, broken, pc, idx,
                               dead_sessions, bmessage, last>>
    /\ UNCHANGED call

\* After stub.broadcast returned: the response.
honeypot_return ==
    /\ honeypot.stage = "awaiting"
    /\ pc = "idle"
    /\ honeypot' = [honeypot EXCEPT
                       !.stage = "done",
                       !.response = HoneypotResponse(honeypot.label, honeypot.db,
                                                     honeypot.rpc)]
    /\ UNCHANGED <<sessions, session_ids, created, broken, pc, idx,
                   dead_sessions, bmessage, last, call>>

-----------------------------------------------------------------------------
(* Python strings.  Where the code looks into a string (split, in, lower)  *)
(* the string is the sequence of its characters.                           *)

\* s[i:]
Drop(s, i) == SubSeq(s, i + 1, Len(s))

\* s.startswith(p)
StartsWith(s, p) == Len(p) <= Len(s) /\ SubSeq(s, 1, Len(p)) = p

\* sub in s
Contains(s, sub) ==
    \E i \in 0..(Len(s) - Len(sub)) : SubSeq(s, i + 1, i + Len(sub)) = sub

\* s.split(sep), sep not empty
RECURSIVE SplitFrom(_, _, _)
SplitFrom(s, sep, piece) ==
    IF s = <<>> THEN <<piece>>
    ELSE IF StartsWith(s, sep)
         THEN <<piece>> \o SplitFrom(Drop(s, Len(sep)), sep, <<>>)
         ELSE SplitFrom(Tail(s), sep, Append(piece, Head(s)))

Split(s, sep) == SplitFrom(s, sep, <<>>)

\* lst[-1]
Last(lst) == lst[Len(lst)]

-----------------------------------------------------------------------------
(* The router: the module-level on_fetch of src/src/worker.py.             *)

\* request.url of the requests the model routes; the runtime hands over
\* the absolute URL, with a path that starts with "/".
RouterUrls ==
    {<<"h", "t", "t", "p", ":", "/", "/", "h", "/", "h", "e", "a", "l",
       "t", "h">>,
     <<"h", "t", "t", "p", ":", "/", "/", "h", "/", "h", "e", "a", "l",
       "t", "h", "?", "p", "r", "o", "b", "e", "=", "1">>,
     <<"h", "t", "t", "p", ":", "/", "/", "h", "/", "a", "p", "i", "/",
       "s", "t", "a", "t", "s">>,
     <<"h", "t", "t", "p", ":", "/", "/", "h", "/", "a", "p", "i", "/",
       "s", "t", "a", "t", "s", "?", "d", "a", "y", "s", "=", "7">>,
     <<"h", "t", "t", "p", ":", "/", "/", "h", "/", "w", "s">>,
     <<"h", "t", "t", "p", ":", "/", "/", "h", "/", "w", "s", "?", "t",
       "o", "k", "e", "n", "=", "1">>,
     <<"h", "t", "t", "p", ":", "/", "/", "h", "/">>,
     <<"h", "t", "t", "p", ":", "/", "/", "h", "/", "?", "u", "t", "m",
       "=", "1">>,
     <<"h", "t", "t", "p", ":", "/", "/", "h", "/", "d", "a", "s", "h",
       "b", "o", "a", "r", "d">>,
     <<"h", "t", "t", "p", ":", "/", "/", "h", "/", "d", "a", "s", "h",
       "b", "o", "a", "r", "d", "/">>,
     <<"h", "t", "t", "p", ":", "/", "/", "h", "/", "a", "d", "m", "i", "n">>,
     <<"h", "t", "t", "p", ":", "/", "/", "h", "/", "x", "/", "w", "s">>,
     <<"h", "t", "t", "p", ":", "/", "/", "h", "/", "a", "p", "i", "/",
       "s", "t", "a", "t", "s", "/", "h", "e", "a", "l", "t", "h">>,
     <<"h", "t", "t", "p", ":", "/", "/", "h", "/", "l", "o", "g", "i",
       "n", "?", "n", "e", "x", "t", "=", "/", "h", "e", "a", "l", "t", "h">>,
     <<"h", "t", "t", "p", ":", "/", "/", "h", "/", ".", "e", "n", "v">>,
     <<"h", "t", "t", "p", ":", "/", "/", "h", "/", "w", "p", "/", "h",
       "e", "a", "l", "t", "h", ".", "p", "h", "p">>}

\* url.split("/")[-1] if "/" in url else ""
RouterPath(url) == IF InList("/", url) THEN Last(Split(url, <<"/">>)) ELSE <<>>

\* The handler the chain of ifs reaches; every branch returns.
Route(url) ==
    LET path == RouterPath(url)
    IN  IF path = <<"h", "e", "a", "l", "t", "h">> THEN "health"
        ELSE IF Contains(url, <<"a", "p", "i", "/", "s", "t", "a", "t", "s">>)
        THEN "get_stats"
        ELSE IF path = <<"w", "s">> THEN "stub.fetch"
        ELSE IF path = <<>> \/ path = <<"d", "a", "s", "h", "b", "o", "a", "r", "d">>
        THEN "ASSETS.fetch"
        ELSE "handle_honeypot_request"

\* One request through the router: the handlers it invoked, in order.
router_on_fetch(url) ==
    /\ call = NoCall
    /\ call' = [fn |-> "on_fetch", url |-> url, handlers |-> <<Route(url)>>]
    /\ UNCHANGED <<sessions, session_ids, created, broken, pc, idx,
                   dead_sessions, bmessage, last, honeypot>>

-----------------------------------------------------------------------------
(* classify_request applied to bundles: any bundle the extractor can make  *)
(* (a detector's flag is set exactly when its risk is not low), and the    *)
(* sequence of calls of test_score_accumulation, which starts from a clean *)
(* bundle and sets one more signal before each further call.               *)

\* The number of signals set one after the other on a clean bundle.
MaxAdded == 2

RiskLevels == {"low", "medium", "high"}

\* path entropy in hundredths: below, at and above 4.5
Entropies == {200, 450, 451}

\* path_chars: without the character, with it, and the {} of an empty path
PathChars == {[suspicious_chars |-> FALSE], [suspicious_chars |-> TRUE], <<>>}

\* request.cf.botManagement.score; 50 is the default
BotScores == {15, 29, 30, 50}

ClassifierFeatures ==
    {[ua_parsed |-> [is_bot |-> bot],
      sql_injection |-> [has_sql_pattern |-> sql # "low", risk_level |-> sql],
      path_traversal |-> [has_traversal |-> trav # "low", risk_level |-> trav],
      sensitive_files |-> [accesses_sensitive |-> sens],
      common_exploits |-> [has_exploits |-> expl # "low", risk_level |-> expl],
      path_entropy |-> entropy,
      path_chars |-> chars] :
        bot \in BOOLEAN, sql \in RiskLevels, trav \in RiskLevels,
        sens \in BOOLEAN, expl \in RiskLevels, entropy \in Entropies,
        chars \in PathChars}

\* The assignments the test makes to base_features (and to the reputation)
\* between two calls, one per signal and tier.
Signals ==
    {"bot", "sql_medium", "sql_high", "traversal_medium", "traversal_high",
     "sensitive", "exploits_medium", "exploits_high", "entropy", "suspicious",
     "reputation"}

\* the signal is set in the arguments already, in whatever tier
IsSet(signal, features, cf_bot_score) ==
    CASE signal = "bot" -> features.ua_parsed.is_bot
      [] signal \in {"sql_medium", "sql_high"} ->
             features.sql_injection.has_sql_pattern
      [] signal \in {"traversal_medium", "traversal_high"} ->
             features.path_traversal.has_traversal
      [] signal = "sensitive" -> features.sensitive_files.accesses_sensitive
      [] signal \in {"exploits_medium", "exploits_high"} ->
             features.common_exploits.has_exploits
      [] signal = "entropy" -> features.path_entropy > 450
      [] signal = "suspicious" ->
             DictGet(features.path_chars, "suspicious_chars", FALSE)
      [] signal = "reputation" -> cf_bot_score < 30

TurnOn(signal, features) ==
    CASE signal = "bot" -> [features EXCEPT !.ua_parsed.is_bot = TRUE]
      [] signal = "sql_medium" ->
             [features EXCEPT !.sql_injection =
                 [has_sql_pattern |-> TRUE, risk_level |-> "medium"]]
      [] signal = "sql_high" ->
             [features EXCEPT !.sql_injection =
                 [has_sql_pattern |-> TRUE, risk_level |-> "high"]]
      [] signal = "traversal_medium" ->
             [features EXCEPT !.path_traversal =
                 [has_traversal |-> TRUE, risk_level |-> "medium"]]
      [] signal = "traversal_high" ->
             [features EXCEPT !.path_traversal =
                 [has_traversal |-> TRUE, risk_level |-> "high"]]
      [] signal = "sensitive" ->
             [features EXCEPT !.sensitive_files.accesses_sensitive = TRUE]
      [] signal = "exploits_medium" ->
             [features EXCEPT !.common_exploits =
                 [has_exploits |-> TRUE, risk_level |-> "medium"]]
      [] signal = "exploits_high" ->
             [features EXCEPT !.common_exploits =
                 [has_exploits |-> TRUE, risk_level |-> "high"]]
      [] signal = "entropy" -> [features EXCEPT !.path_entropy = 451]
      [] signal = "suspicious" ->
             [features EXCEPT !.path_chars = [suspicious_chars |-> TRUE]]
      [] signal = "reputation" -> features

TurnOnScore(signal, cf_bot_score) ==
    IF signal = "reputation" THEN 15 ELSE cf_bot_score

\* result = classify_request(features, cf_bot_score)
classify(features, cf_bot_score) ==
    /\ call = NoCall
    /\ call' = [fn |-> "classify_request", features |-> features,
                cf_bot_score |-> cf_bot_score,
                result |-> classify_request(features, cf_bot_score),
                earlier |-> <<>>]
    /\ UNCHANGED <<sessions, session_ids, created, broken, pc, idx,
                   dead_sessions, bmessage, last, honeypot>>

\* The test's next step: one more signal is set in the arguments of the
\* call before, which began from a clean bundle, and the function is called
\* again; earlier keeps the results so far.
classify_again(signal) ==
    /\ call.fn = "classify_request"
    /\ call.result.reasons = <<>> \/ call.earlier # <<>>
    /\ Len(call.earlier) < MaxAdded
    /\ ~IsSet(signal, call.features, call.cf_bot_score)
    /\ LET features == TurnOn(signal, call.features)
           cf_bot_score == TurnOnScore(signal, call.cf_bot_score)
       IN  call' = [fn |-> "classify_request", features |-> features,
                    cf_bot_score |-> cf_bot_score,
                    result |-> classify_request(features, cf_bot_score),
                    earlier |-> Append(call.earlier, call.result)]
    /\ UNCHANGED <<sessions, session_ids, created, broken, pc, idx,
                   dead_sessions, bmessage, last, honeypot>>

-----------------------------------------------------------------------------
(* The detectors of src/src/features.py that the scenarios below apply.    *)

UpperToLower ==
    [A |-> "a", B |-> "b", C |-> "c", D |-> "d", E |-> "e", F |->
     "f", G |-> "g", H |-> "h", I |-> "i", J |-> "j", K |-> "k", L
     |-> "l", M |-> "m", N |-> "n", O |-> "o", P |-> "p", Q |->
     "q", R |-> "r", S |-> "s", T |-> "t", U |-> "u", V |-> "v", W
     |-> "w", X |-> "x", Y |-> "y", Z |-> "z"]

\* A lower() that leaves the string as it is.
Lower_Identity(s) == s

\* s.lower()
Lower(s) ==
    [i \in 1..Len(s) |->
        IF s[i] \in DOMAIN UpperToLower THEN UpperToLower[s[i]] ELSE s[i]]

sql_patterns ==
    <<<<"u", "n", "i", "o", "n">>,
      <<"s", "e", "l", "e", "c", "t">>,
      <<"i", "n", "s", "e", "r", "t">>,
      <<"u", "p", "d", "a", "t", "e">>,
      <<"d", "e", "l", "e", "t", "e">>,
      <<"d", "r", "o", "p">>,
      <<"e", "x", "e", "c">>,
      <<"e", "x", "e", "c", "u", "t", "e">>,
      <<"-", "-">>,
      <<"/", "*">>,
      <<"*", "/">>,
      <<"x", "p", "_">>,
      <<"s", "p", "_">>,
      <<"0", "x">>,
      <<"c", "h", "a", "r", "(">>,
      <<"w", "a", "i", "t", "f", "o", "r">>,
      <<"d", "e", "l", "a", "y">>,
      <<"1", "=", "1">>,
      <<"'", " ", "o", "r", " ", "'">>,
      <<"\"", " ", "o", "r", " ", "\"">>,
      <<"o", "r", " ", "1", "=", "1">>>>

\* matches = sum(1 for pattern in sql_patterns if pattern in full_string)
detect_sql_injection(path, query_string) ==
    LET full_string == Lower(path \o query_string)
        matches == Cardinality({i \in 1..Len(sql_patterns) :
                                   Contains(full_string, sql_patterns[i])})
    IN  [has_sql_pattern |-> matches > 0,
         sql_pattern_count |-> matches,
         risk_level |-> IF matches >= 3 THEN "high"
                        ELSE IF matches >= 1 THEN "medium" ELSE "low"]

bot_patterns ==
    <<<<"b", "o", "t">>,
      <<"c", "r", "a", "w", "l", "e", "r">>,
      <<"s", "p", "i", "d", "e", "r">>,
      <<"s", "c", "r", "a", "p", "e", "r">>,
      <<"c", "u", "r", "l">>,
      <<"w", "g", "e", "t">>,
      <<"p", "y", "t", "h", "o", "n">>>>

\* parse_user_agent(ua_string)["is_bot"]
parse_user_agent(ua_string) ==
    IF ua_string = <<>> THEN [is_bot |-> TRUE]
    ELSE [is_bot |-> \E i \in 1..Len(bot_patterns) :
                         Contains(Lower(ua_string), bot_patterns[i])]

\* The arguments detect_sql_injection is applied to: <<path, query_string>>.
SqlInputs ==
    {<<<<"/", "a", "d", "m", "i", "n", "/", "l", "o", "g", "i", "n", "?",
         "u", "s", "e", "r", "=", "a", "d", "m", "i", "n", "'", " ", "O",
         "R", " ", "'", "1", "'", "=", "'", "1">>,
       <<>>>>,
     <<<<"/", "a", "d", "m", "i", "n", "/", "l", "o", "g", "i", "n">>,
       <<"u", "s", "e", "r", "=", "a", "d", "m", "i", "n", "'", " ", "O", "R", " ", "'", "1", "'", "=", "'", "1">>>>,
     <<<<"/", "a", "p", "i", "/", "u", "s", "e", "r", "s">>,
       <<>>>>,
     <<<<"/", "i", "t", "e", "m">>,
       <<"i", "d", "=", "1", " ", "O", "R", " ", "1", "=", "1">>>>,
     <<<<"/", "q">>,
       <<"s", "=", "1", " ", "U", "N", "I", "O", "N", " ", "S", "E", "L", "E", "C", "T", " ", "p", "w", "-", "-">>>>,
     <<<<"/", "D", "r", "o", "p">>,
       <<>>>>,
     <<<<"/", "q">>,
       <<"a", "=", "1", "=", "1", ";", "E", "X", "E", "C", " ", "x", "p", "_", "x">>>>}

\* A tier that needs three matches for high.
TraversalRisk_HighAt3(matches) ==
    IF matches >= 3 THEN "high" ELSE IF matches >= 1 THEN "medium" ELSE "low"

\* "high" if matches >= 2 else "medium" if matches >= 1 else "low"
TraversalRisk(matches) ==
    IF matches >= 2 THEN "high" ELSE IF matches >= 1 THEN "medium" ELSE "low"

traversal_patterns ==
    <<<<".", ".">>,
      <<"%", "2", "e", "%", "2", "e">>,
      <<".", ".", "%", "2", "f">>,
      <<".", ".", "\\">>,
      <<"%", "2", "e", "%", "2", "e", "%", "2", "f">>,
      <<"%", "2", "e", "%", "2", "e", "/">>,
      <<".", ".", "%", "5", "c">>,
      <<"%", "2", "e", "%", "2", "e", "\\">>,
      <<"/", "e", "t", "c", "/">>,
      <<"/", "b", "i", "n", "/">>,
      <<"/", "u", "s", "r", "/">>,
      <<"/", "v", "a", "r", "/">>,
      <<"c", ":", "\\">>,
      <<"c", ":", "/">>,
      <<"%", "s", "y", "s", "t", "e", "m", "r", "o", "o", "t", "%">>>>

\* sum(1 for pattern in patterns if pattern in text)
CountMatches(patterns, text) ==
    Cardinality({i \in 1..Len(patterns) : Contains(text, patterns[i])})

detect_path_traversal(path) ==
    LET matches == CountMatches(traversal_patterns, Lower(path))
    IN  [has_traversal |-> matches > 0,
         traversal_count |-> matches,
         risk_level |-> TraversalRisk(matches)]

\* the dict exploit_patterns, in its order
exploit_patterns ==
    <<[category |-> "wordpress",
       patterns |->
           <<<<"w", "p", "-", "a", "d", "m", "i", "n">>,
             <<"w", "p", "-", "l", "o", "g", "i", "n">>,
             <<"w", "p", "-", "c", "o", "n", "t", "e", "n", "t">>,
             <<"w", "p", "-", "i", "n", "c", "l", "u", "d", "e", "s">>,
             <<"x", "m", "l", "r", "p", "c">>>>],
      [category |-> "php_exploits",
       patterns |->
           <<<<"p", "h", "p", "i", "n", "f", "o">>,
             <<"p", "h", "p", "m", "y", "a", "d", "m", "i", "n">>,
             <<"p", "h", "p", "u", "n", "i", "t">>,
             <<"p", "h", "p", "-", "c", "g", "i">>>>],
      [category |-> "admin_scans",
       patterns |->
           <<<<"a", "d", "m", "i", "n">>,
             <<"a", "d", "m", "i", "n", "i", "s", "t", "r", "a", "t", "o", "r">>,
             <<"l", "o", "g", "i", "n">>,
             <<"p", "o", "r", "t", "a", "l">>,
             <<"m", "a", "n", "a", "g", "e", "r">>>>],
      [category |-> "shell_access",
       patterns |->
           <<<<"s", "h", "e", "l", "l">>,
             <<"c", "m", "d">>,
             <<"b", "a", "s", "h">>,
             <<"p", "o", "w", "e", "r", "s", "h", "e", "l", "l">>,
             <<"e", "x", "e", "c", "u", "t", "e">>>>],
      [category |-> "injection",
       patterns |->
           <<<<"<", "s", "c", "r", "i", "p", "t">>,
             <<"j", "a", "v", "a", "s", "c", "r", "i", "p", "t", ":">>,
             <<"o", "n", "e", "r", "r", "o", "r", "=">>,
             <<"o", "n", "c", "l", "i", "c", "k", "=">>,
             <<"e", "v", "a", "l", "(">>>>]>>

\* total_matches after the loop over the first n categories
RECURSIVE ExploitTotal(_, _)
ExploitTotal(path_lower, n) ==
    IF n = 0 THEN 0
    ELSE ExploitTotal(path_lower, n - 1)
             + CountMatches(exploit_patterns[n].patterns, path_lower)

detect_common_exploits(path) ==
    LET path_lower == Lower(path)
        hit == {n \in 1..Len(exploit_patterns) :
                   CountMatches(exploit_patterns[n].patterns, path_lower) > 0}
        total_matches == ExploitTotal(path_lower, Len(exploit_patterns))
    IN  [has_exploits |-> total_matches > 0,
         exploit_categories |->
             [c \in {exploit_patterns[n].category : n \in hit} |->
                 LET n == CHOOSE k \in hit : exploit_patterns[k].category = c
                 IN  CountMatches(exploit_patterns[n].patterns, path_lower)],
         total_patterns |-> total_matches,
         risk_level |-> IF total_matches >= 3 THEN "high"
                        ELSE IF total_matches >= 1 THEN "medium" ELSE "low"]

\* The paths the traversal and the exploit detector are applied to.
DetectorPaths ==
    {<<"/", "a", "p", "i", "/", "u", "s", "e", "r", "s">>,
     <<"/", ".", ".", "/", ".", ".", "/", ".", "e", "n", "v">>,
     <<"/", ".", ".", "/", ".", ".", "/", "e", "t", "c", "/", "p", "a",
       "s", "s", "w", "d">>,
     <<"/", ".", ".", "%", "2", "F", ".", ".", "%", "2", "F", "e", "t", "c">>,
     <<"/", "%", "2", "E", "%", "2", "E", "/", "x">>,
     <<"/", "C", ":", "\\", "W", "i", "n">>,
     <<"/", "W", "P", "-", "A", "D", "M", "I", "N">>,
     <<"/", "w", "p", "-", "a", "d", "m", "i", "n">>,
     <<"/", "w", "p", "-", "l", "o", "g", "i", "n", ".", "p", "h", "p">>,
     <<"/", "a", "d", "m", "i", "n", "i", "s", "t", "r", "a", "t", "o",
       "r", "/", "l", "o", "g", "i", "n">>,
     <<"/", "s", "h", "e", "l", "l">>,
     <<"/", "q", "?", "s", "=", "<", "s", "c", "r", "i", "p", "t", ">",
       "e", "v", "a", "l", "(", "c", "m", "d", ")", "<", "/", "s", "c",
       "r", "i", "p", "t", ">">>,
     <<"/", "x", "?", "a", "=", "1", " ", "U", "N", "I", "O", "N", " ",
       "S", "E", "L", "E", "C", "T", " ", "1", "-", "-">>}

\* path.count(c)
Count(s, c) == Cardinality({i \in 1..Len(s) : s[i] = c})

\* s.split(sep, 1)[1], for a sep that occurs in s
AfterFirst(s, sep) ==
    LET i == CHOOSE k \in 0..(Len(s) - Len(sep)) :
                 /\ SubSeq(s, k + 1, k + Len(sep)) = sep
                 /\ \A j \in 0..(k - 1) : SubSeq(s, j + 1, j + Len(sep)) # sep
    IN  Drop(s, i + Len(sep))

suspicious_set == {"<", ">", "'", "\"", ";", "|", "&", "$"}

\* if "://" in path: path = path.split("://", 1)[1], and from the first "/"
StripProtocolAndDomain(path) ==
    IF Contains(path, <<":", "/", "/">>)
    THEN LET rest == AfterFirst(path, <<":", "/", "/">>)
         IN  IF InList("/", rest) THEN <<"/">> \o AfterFirst(rest, <<"/">>)
             ELSE rest
    ELSE path

analyze_path_characteristics(path) ==
    IF path = <<>> THEN <<>>
    ELSE LET p == StripProtocolAndDomain(path)
         IN  [length |-> Len(p),
              num_slashes |-> Count(p, "/"),
              num_dots |-> Count(p, "."),
              num_dashes |-> Count(p, "-"),
              num_underscores |-> Count(p, "_"),
              has_query |-> InList("?", p),
              num_params |-> IF InList("?", p) THEN Count(p, "&") + 1 ELSE 0,
              has_fragment |-> InList("#", p),
              suspicious_chars |-> \E i \in 1..Len(p) : p[i] \in suspicious_set]

\* The protocol and host prefixes put before a path.
UrlPrefixes == {<<"h", "t", "t", "p", "s", ":", "/", "/", "e", "x", "a", "m", "p", "l", "e", ".", "c", "o", "m">>, <<"h", "t", "t", "p", ":", "/", "/", "h", ":", "8", "0", "8", "0">>}

\* The paths analyze_path_characteristics is applied to, each beginning
\* with "/".
AnalyzedPaths ==
    {<<"/", "a", "p", "i", "/", "u", "s", "e", "r", "s">>,
     <<"/">>,
     <<"/", "a", "p", "i", "/", "u", "s", "e", "r", "s", "?", "i", "d",
       "=", "1", "2", "3", "&", "n", "a", "m", "e", "=", "t", "e", "s", "t">>,
     <<"/", "p", "a", "g", "e", "#", "s", "e", "c", "t", "i", "o", "n">>,
     <<"/", "a", "p", "i", "/", "t", "e", "s", "t", "?", "q", "=", "<",
       "s", "c", "r", "i", "p", "t", ">">>,
     <<"/", "a", "-", "b", "_", "c", ".", "d">>,
     <<"/", "r", "?", "u", "=", "h", "t", "t", "p", ":", "/", "/", "e",
       "/", "x">>,
     <<"/", "a", ":", "/", "/", "b", "/", "c">>}

\* detect_path_traversal(path)
apply_detect_path_traversal(path) ==
    /\ call = NoCall
    /\ call' = [fn |-> "detect_path_traversal", path |-> path,
                result |-> detect_path_traversal(path)]
    /\ UNCHANGED <<sessions, session_ids, created, broken, pc, idx,
                   dead_sessions, bmessage, last, honeypot>>

\* detect_common_exploits(path)
apply_detect_common_exploits(path) ==
    /\ call = NoCall
    /\ call' = [fn |-> "detect_common_exploits", path |-> path,
                result |-> detect_common_exploits(path)]
    /\ UNCHANGED <<sessions, session_ids, created, broken, pc, idx,
                   dead_sessions, bmessage, last, honeypot>>

\* analyze_path_characteristics(path) and, as test_full_url does,
\* analyze_path_characteristics(prefix + path)
apply_analyze_path_characteristics(prefix, path) ==
    /\ call = NoCall
    /\ call' = [fn |-> "analyze_path_characteristics", prefix |-> prefix,
                path |-> path,
                alone |-> analyze_path_characteristics(path),
                prefixed |-> analyze_path_characteristics(prefix \o path)]
    /\ UNCHANGED <<sessions, session_ids, created, broken, pc, idx,
                   dead_sessions, bmessage, last, honeypot>>

\* analyze_path_characteristics("")
apply_analyze_empty_path ==
    /\ call = NoCall
    /\ call' = [fn |-> "analyze_path_characteristics", prefix |-> <<>>,
                path |-> <<>>,
                alone |-> analyze_path_characteristics(<<>>),
                prefixed |-> analyze_path_characteristics(<<>>)]
    /\ UNCHANGED <<sessions, session_ids, created, broken, pc, idx,
                   dead_sessions, bmessage, last, honeypot>>

\* attack_path of test_attack_detection_workflow
AttackPath ==
    <<"/", "a", "d", "m", "i", "n", "/", "l", "o", "g", "i", "n", "?", "u",
      "s", "e", "r", "=", "a", "d", "m", "i", "n", "'", " ", "O", "R", " ",
      "'", "1", "'", "=", "'", "1">>

\* its user agent
AttackUserAgent == <<"c", "u", "r", "l", "/", "7", ".", "6", "8", ".", "0">>

\* The reputation the workflow classifies with.
AttackBotScore == 15

\* The bundle of test_attack_detection_workflow: the SQL member is the
\* detector's result for attack_path, the others are the test's literals,
\* which are what the other detectors return for this path and user agent.
AttackFeatures ==
    [ua_parsed |-> parse_user_agent(AttackUserAgent),
     sql_injection |-> detect_sql_injection(AttackPath, <<>>),
     path_traversal |-> [has_traversal |-> FALSE, risk_level |-> "low"],
     sensitive_files |-> [accesses_sensitive |-> FALSE],
     common_exploits |-> [has_exploits |-> TRUE, risk_level |-> "medium"],
     path_entropy |-> 350,
     path_chars |-> [suspicious_chars |-> TRUE]]

\* sql_result = detect_sql_injection(path, query_string)
apply_detect_sql_injection(path, query_string) ==
    /\ call = NoCall
    /\ call' = [fn |-> "detect_sql_injection", path |-> path,
                query_string |-> query_string,
                result |-> detect_sql_injection(path, query_string)]
    /\ UNCHANGED <<sessions, session_ids, created, broken, pc, idx,
                   dead_sessions, bmessage, last, honeypot>>

\* The workflow of the test: detect, build the bundle, classify.
attack_detection_workflow(cf_bot_score) ==
    /\ call = NoCall
    /\ call' = [fn |-> "attack_detection_workflow", path |-> AttackPath,
                user_agent |-> AttackUserAgent, cf_bot_score |-> cf_bot_score,
                features |-> AttackFeatures,
                result |-> classify_request(AttackFeatures, cf_bot_score)]
    /\ UNCHANGED <<sessions, session_ids, created, broken, pc, idx,
                   dead_sessions, bmessage, last, honeypot>>

-----------------------------------------------------------------------------
(* The environment: the transport of an accepted socket goes away (the    *)
(* peer vanished); from then on send raises on it.                        *)

TransportDies(ws) ==
    /\ ws \notin broken
    /\ broken' = broken \cup {ws}
    /\ UNCHANGED <<sessions, session_ids, created, pc, idx, dead_sessions,
                   bmessage, last>>
    /\ UNCHANGED <<honeypot, call>>

-----------------------------------------------------------------------------

\* The sockets the runtime has accepted: events arrive only for these.
Accepted == 1..created

Next ==
    \/ \E upgrade \in UpgradeHeaders : on_fetch(upgrade)
    \/ \E ws \in Accepted, message \in Payloads : on_webSocketMessage(ws, message)
    \/ \E ws \in Accepted : on_webSocketClose(ws)
    \/ \E ws \in Accepted : on_webSocketError(ws)
    \/ \E message \in BroadcastMessages : broadcast(message)
    \/ broadcast_send
    \/ broadcast_prune
    \/ \E ws \in Accepted : TransportDies(ws)

Spec == Init /\ [][Next]_vars

(* The coordinator while broadcast keeps being called: a call that can be  *)
(* made is made at some time, and a call made runs to its end (its two     *)
(* loops have no await).                                                   *)
SpecFair ==
    /\ Spec
    /\ WF_vars(\E message \in BroadcastMessages : broadcast(message))
    /\ WF_vars(broadcast_send)
    /\ WF_vars(broadcast_prune)

(* The honeypot flow with the coordinator it broadcasts to: observers      *)
(* connect, disconnect and lose their transport while requests are         *)
(* classified; broadcast is called by the flow only.                       *)
NextHoneypot ==
    \/ \E upgrade \in UpgradeHeaders : on_fetch(upgrade)
    \/ \E ws \in Accepted : on_webSocketClose(ws)
    \/ \E ws \in Accepted : on_webSocketError(ws)
    \/ \E request \in HoneypotRequests, db \in {"ok", "failed"},
          rpc \in {"ok", "failed"} : handle_honeypot_request(request, db, rpc)
    \/ broadcast_send
    \/ broadcast_prune
    \/ honeypot_return
    \/ \E ws \in Accepted : TransportDies(ws)

SpecHoneypot == Init /\ [][NextHoneypot]_vars

(* The functions without state: a behaviour applies one of them once, to   *)
(* arguments from bounded sets.                                            *)
NextPure ==
    \/ \E url \in RouterUrls : router_on_fetch(url)
    \/ \E features \in ClassifierFeatures, cf_bot_score \in BotScores :
          classify(features, cf_bot_score)
    \/ \E signal \in Signals : classify_again(signal)
    \/ \E input \in SqlInputs : apply_detect_sql_injection(input[1], input[2])
    \/ \E cf_bot_score \in BotScores : attack_detection_workflow(cf_bot_score)
    \/ \E path \in DetectorPaths : apply_detect_path_traversal(path)
    \/ \E path \in DetectorPaths : apply_detect_common_exploits(path)
    \/ \E prefix \in UrlPrefixes, path \in AnalyzedPaths :
          apply_analyze_path_characteristics(prefix, path)
    \/ apply_analyze_empty_path

SpecPure == Init /\ [][NextPure]_vars

-----------------------------------------------------------------------------
(* Vocabulary of the properties below.  last is the operation handled      *)
(* last: its arguments, the state it started from, the sends it attempted  *)
(* (in order, each with whether it returned), and how it ended.            *)

IsBroadcast == last.op = "broadcast"
BroadcastReturned == last.op = "broadcast" /\ last.done
IsDisconnect == last.op \in {"close", "error"}
IsMessage == last.op = "message"

\* the positions of last.sent at which a send on s was attempted
AttemptsOn(s) == {i \in 1..Len(last.sent) : last.sent[i].to = s}

\* the sessions on which a send of the last operation raised
FailedSessions == {last.sent[i].to : i \in {k \in 1..Len(last.sent) : ~last.sent[k].ok}}

\* lst without the members of S, order kept
RECURSIVE Without(_, _)
Without(lst, S) ==
    IF lst = <<>> THEN <<>>
    ELSE IF Head(lst) \in S THEN Without(Tail(lst), S)
    ELSE <<Head(lst)>> \o Without(Tail(lst), S)

\* the values of a dict
Values(d) == {d[k] : k \in DOMAIN d}

KnownTypes == {"ping", "get_stats", "filter"}

\* the type of the control message handled last, "" when it has none
LastType == DictGet(JsonLoads(last.arg).value, "type", "")
LastParsesAsObject == JsonLoads(last.arg).pytype = "dict"
LastUnparseable == JsonLoads(last.arg).pytype = "JSONDecodeError"

IsJsonOfType(frame, type) == "json" \in DOMAIN frame /\ frame.json.type = type

-----------------------------------------------------------------------------
(* C1 *)

\* C1: in every broadcast call the sends go to the sessions of the live set
\* as it was when the call started, in that order and each with the call's
\* message; when the call has returned, every such session has had exactly
\* one attempt and no other session has had any.
C1_BroadcastOncePerLiveSessionInOrder ==
    IsBroadcast =>
        /\ Len(last.sent) <= Len(last.pre_sessions)
        /\ \A i \in 1..Len(last.sent) :
               /\ last.sent[i].to = last.pre_sessions[i]
               /\ last.sent[i].frame = Text(last.arg)
        /\ last.done =>
               \A s \in Sockets \cup {last.sent[i].to : i \in 1..Len(last.sent)} :
                   Cardinality(AttemptsOn(s)) =
                       IF InList(s, last.pre_sessions) THEN 1 ELSE 0

\* a broadcast over three sessions has returned, the first send having failed
C1_Witness ==
    /\ BroadcastReturned
    /\ Len(last.pre_sessions) >= 3
    /\ ~last.sent[1].ok

-----------------------------------------------------------------------------
(* C2 *)

\* C2: a failing send does not end the pass: while the call runs the
\* iterator stands right after the last attempt, and once it has returned
\* every session that came after a failed one has had its attempt; no
\* exception leaves the call.
C2_FailureDoesNotAbortBroadcast ==
    IsBroadcast =>
        /\ ~last.raised
        /\ ~last.done => pc = "broadcast" /\ idx = Len(last.sent) + 1
        /\ last.done =>
               \A i \in 1..Len(last.pre_sessions) :
                   (\E k \in 1..(i - 1) : k <= Len(last.sent) /\ ~last.sent[k].ok)
                       => /\ i <= Len(last.sent)
                          /\ last.sent[i].to = last.pre_sessions[i]

\* a broadcast has returned in which a send failed and a later one went through
C2_Witness ==
    /\ BroadcastReturned
    /\ \E k, i \in 1..Len(last.sent) :
           k < i /\ ~last.sent[k].ok /\ last.sent[i].ok

-----------------------------------------------------------------------------
(* C3 *)

\* C3: while the pass of a broadcast runs the live set is the one the call
\* started with; when the call has returned it is that list without the
\* sessions whose send failed, the others in their order.  With a single
\* live session whose send fails the list is empty afterwards, and a
\* broadcast over the empty list attempts nothing and raises nothing.
C3_PruneAfterPass ==
    IsBroadcast =>
        /\ ~last.done => sessions = last.pre_sessions
        /\ last.done => sessions = Without(last.pre_sessions, FailedSessions)
        /\ (last.done /\ Len(last.pre_sessions) = 1 /\ FailedSessions # {})
               => Len(sessions) = 0
        /\ (last.done /\ last.pre_sessions = <<>>)
               => last.sent = <<>> /\ ~last.raised /\ sessions = <<>>

\* a broadcast over three sessions has returned and pruned two of them
C3_Witness ==
    /\ BroadcastReturned
    /\ Len(last.pre_sessions) = 3
    /\ Cardinality(FailedSessions) = 2
    /\ Len(sessions) = 1

-----------------------------------------------------------------------------
(* C4 *)

\* C4: an upgrade with Upgrade: websocket is answered 101; it appends one
\* socket that was not in the list, files for it an identifier no session
\* had, and attempts exactly one send, on the new socket, of the connected
\* message with that identifier; the other sessions and their identifiers
\* are as before.
C4_ConnectAppendsOneSession ==
    (last.op = "fetch" /\ last.arg = "websocket") =>
        /\ last.status = 101
        /\ ~InList(last.ws, last.pre_sessions)
        /\ sessions = Append(last.pre_sessions, last.ws)
        /\ DOMAIN session_ids = (DOMAIN last.pre_ids) \cup {Id(last.ws)}
        /\ \A k \in (DOMAIN last.pre_ids) \ {Id(last.ws)} :
               session_ids[k] = last.pre_ids[k]
        /\ session_ids[Id(last.ws)] \notin Values(last.pre_ids)
        /\ Len(last.sent) = 1
        /\ last.sent[1].to = last.ws
        /\ IsJsonOfType(last.sent[1].frame, "connected")
        /\ last.sent[1].frame.json.session_id = session_ids[Id(last.ws)]

\* a second or later session has connected and its confirmation went out
C4_Witness ==
    /\ last.op = "fetch"
    /\ last.status = 101
    /\ Len(last.pre_sessions) >= 1
    /\ last.sent[1].ok

-----------------------------------------------------------------------------
(* C5 *)

\* C5: a close or error event for a socket that is not in the list changes
\* neither the list nor the identifiers and raises nothing; after any such
\* event the socket is not in the list, and from every reachable state a
\* second disconnect of a socket gives the state the first one gave.
C5_DisconnectIdempotent ==
    /\ (IsDisconnect /\ ~InList(last.ws, last.pre_sessions)) =>
           /\ sessions = last.pre_sessions
           /\ session_ids = last.pre_ids
           /\ ~last.raised
    /\ IsDisconnect => ~InList(last.ws, sessions)
    /\ \A ws \in Accepted :
           LET once == AfterDisconnect(sessions, session_ids, ws)
               twice == AfterDisconnect(once.sessions, once.session_ids, ws)
           IN  /\ twice = once
               /\ Len(twice.sessions) = Len(once.sessions)

\* a socket that an earlier disconnect removed is disconnected again, while
\* other sessions are live
C5_Witness ==
    /\ IsDisconnect
    /\ ~InList(last.ws, last.pre_sessions)
    /\ Id(last.ws) \notin DOMAIN last.pre_ids
    /\ Len(sessions) >= 1

-----------------------------------------------------------------------------
(* C6 *)

\* C6: once an operation has completed, no session on which one of its
\* sends failed is in the live set.
C6_FailedSendRemovesSession ==
    last.done => \A s \in FailedSessions : ~InList(s, sessions)

-----------------------------------------------------------------------------
(* C7 *)

\* C7: a request whose Upgrade header is absent or is not "websocket" is
\* answered 400, changes neither the list nor the identifiers, sends nothing
\* and raises nothing.
C7_BadUpgradeRejected ==
    (last.op = "fetch" /\ last.arg # "websocket") =>
        /\ last.status = 400
        /\ sessions = last.pre_sessions
        /\ session_ids = last.pre_ids
        /\ last.sent = <<>>
        /\ ~last.raised

\* an upgrade that spells the header value WebSocket was rejected while a
\* session was live
C7_Witness ==
    /\ last.op = "fetch"
    /\ last.arg = "WebSocket"
    /\ last.status = 400
    /\ Len(sessions) >= 1

-----------------------------------------------------------------------------
(* C8 *)

\* the reply the claim names for a message of this type
C8_IsReplyFor(frame, type, live) ==
    /\ "json" \in DOMAIN frame
    /\ CASE type = "ping" -> frame.json.type = "pong"
         [] type = "get_stats" ->
                /\ frame.json.type = "stats"
                /\ frame.json.total_connections = live
         [] type = "filter" -> frame.json.type = "ack"
         [] OTHER -> frame.json.type = "error" /\ frame.json.code = 400

\* C8: for a control message that parses as a JSON object exactly one send
\* is made, on the sender's socket, of the reply that belongs to its type
\* (pong, stats with the length of the list, ack, error 400 otherwise).
C8_OneReplyPerObjectMessage ==
    (IsMessage /\ LastParsesAsObject) =>
        /\ Len(last.sent) = 1
        /\ last.sent[1].to = last.ws
        /\ C8_IsReplyFor(last.sent[1].frame, LastType, Len(last.pre_sessions))

\* What the handler does do for such a message: the first send is that
\* reply, every send is on the sender's socket, and it is the only send
\* unless it raised.
C8_FirstSendIsTheReply ==
    (IsMessage /\ LastParsesAsObject) =>
        /\ Len(last.sent) >= 1
        /\ \A i \in 1..Len(last.sent) : last.sent[i].to = last.ws
        /\ C8_IsReplyFor(last.sent[1].frame, LastType, Len(last.pre_sessions))
        /\ last.sent[1].ok => Len(last.sent) = 1 /\ ~last.raised

-----------------------------------------------------------------------------
(* C9 *)

\* C9: for a payload that is not JSON exactly one send is made, on the
\* sender's socket, of "Echo: " followed by the payload; no error object is
\* sent, nothing is raised, and a sender that was in the list still is.
C9_UnparseableIsEchoedQuietly ==
    (IsMessage /\ LastUnparseable) =>
        /\ Len(last.sent) = 1
        /\ last.sent[1].to = last.ws
        /\ last.sent[1].frame = Text("Echo: " \o last.arg)
        /\ \A i \in 1..Len(last.sent) : ~IsJsonOfType(last.sent[i].frame, "error")
        /\ ~last.raised
        /\ InList(last.ws, last.pre_sessions) => InList(last.ws, sessions)

\* What the handler does do for such a payload: everything above, except
\* that the exception of a failing send leaves the handler.
C9_EchoIsTheOnlySend ==
    (IsMessage /\ LastUnparseable) =>
        /\ Len(last.sent) = 1
        /\ last.sent[1].to = last.ws
        /\ last.sent[1].frame = Text("Echo: " \o last.arg)
        /\ last.raised = ~last.sent[1].ok
        /\ sessions = last.pre_sessions

-----------------------------------------------------------------------------
(* C10 *)

LastUnknownType == LastParsesAsObject /\ LastType \notin KnownTypes

LastEchoed ==
    \E i \in 1..Len(last.sent) :
        /\ last.sent[i].to = last.ws
        /\ last.sent[i].frame = Text("Echo: " \o last.arg)

\* C10, as claimed: every message that is unparseable or whose type is
\* none of ping, get_stats, filter is echoed back to the sender.
C10_UnknownOrMalformedEchoed ==
    (IsMessage /\ (LastUnparseable \/ LastUnknownType)) => LastEchoed

\* C10, amended: a message that is not parseable JSON is echoed back to the
\* sender, and that echo is the only send; a JSON object whose type is none
\* of ping, get_stats, filter (or is missing) is never echoed: the reply
\* attempted for it is an error object with code 400 naming the type.
C10_OnlyUnparseableEchoed ==
    IsMessage =>
        /\ LastUnparseable =>
               /\ LastEchoed
               /\ Len(last.sent) = 1
        /\ LastUnknownType =>
               /\ ~LastEchoed
               /\ last.sent[1].to = last.ws
               /\ IsJsonOfType(last.sent[1].frame, "error")
               /\ last.sent[1].frame.json.code = 400
               /\ last.sent[1].frame.json.message =
                      "Unknown message type: " \o LastType

\* a message of an unknown type has been answered, the error reply delivered
C10_Witness ==
    /\ IsMessage
    /\ last.arg = P_Subscribe
    /\ last.sent[1].ok
    /\ InList(last.ws, sessions)

-----------------------------------------------------------------------------
(* C11 *)

\* the try block of the handler raised something other than JSONDecodeError:
\* data.get on a value that is no dict, or the send of the reply
LastHandlingRaised ==
    /\ IsMessage
    /\ ~LastUnparseable
    /\ ~LastParsesAsObject \/ ~last.sent[1].ok

\* C11: when handling a control message raises, the sender receives an
\* error object with code 500, nothing is sent to another session, the
\* sender stays in the list, the list and the identifiers are unchanged,
\* and no exception leaves the handler.
C11_ExceptionYields500 ==
    LastHandlingRaised =>
        /\ \E i \in 1..Len(last.sent) :
               /\ last.sent[i].to = last.ws
               /\ last.sent[i].ok
               /\ IsJsonOfType(last.sent[i].frame, "error")
               /\ last.sent[i].frame.json.code = 500
        /\ \A i \in 1..Len(last.sent) : last.sent[i].to = last.ws
        /\ InList(last.ws, last.pre_sessions) => InList(last.ws, sessions)
        /\ sessions = last.pre_sessions
        /\ session_ids = last.pre_ids
        /\ ~last.raised

\* What the handler does do then: the last send it attempts is the error
\* object with code 500, on the sender's socket; the state is unchanged;
\* and the exception of that send, if it fails, leaves the handler.
C11_Error500Attempted ==
    LastHandlingRaised =>
        LET n == Len(last.sent)
        IN  /\ last.sent[n].to = last.ws
            /\ IsJsonOfType(last.sent[n].frame, "error")
            /\ last.sent[n].frame.json.code = 500
            /\ \A i \in 1..n : last.sent[i].to = last.ws
            /\ sessions = last.pre_sessions
            /\ session_ids = last.pre_ids
            /\ last.raised = ~last.sent[n].ok

-----------------------------------------------------------------------------
(* C12 *)

\* C12: after a filter message the acknowledgment has been sent to the
\* sender and the coordinator's state holds the prediction as the sender's
\* filter preference.  No attribute of the coordinator holds a preference
\* when the message arrives, so recording one changes an attribute.
C12_FilterPreferenceStored ==
    (IsMessage /\ LastParsesAsObject /\ LastType = "filter") =>
        /\ \E i \in 1..Len(last.sent) :
               /\ last.sent[i].to = last.ws
               /\ IsJsonOfType(last.sent[i].frame, "ack")
        /\ <<sessions, session_ids>> # <<last.pre_sessions, last.pre_ids>>

\* What the handler does do for a filter message: it attempts the
\* acknowledgment first and leaves every attribute as it was.
C12_FilterOnlyAcknowledged ==
    (IsMessage /\ LastParsesAsObject /\ LastType = "filter") =>
        /\ last.sent[1].to = last.ws
        /\ IsJsonOfType(last.sent[1].frame, "ack")
        /\ <<sessions, session_ids>> = <<last.pre_sessions, last.pre_ids>>

-----------------------------------------------------------------------------
(* C13 *)

\* C13: every honeypot request that has been answered got status 200,
\* Content-Type text/plain and the body "OK", whatever its verdict was and
\* however the D1 write and the broadcast call ended.
C13_SameResponseAlways ==
    honeypot.stage = "done" =>
        honeypot.response =
            [status |-> 200, content_type |-> "text/plain", body |-> "OK"]

\* an attack has been answered whose D1 write and whose broadcast call failed
C13_Witness ==
    /\ honeypot.stage = "done"
    /\ honeypot.label = "attack"
    /\ honeypot.db = "failed"
    /\ honeypot.rpc = "failed"

-----------------------------------------------------------------------------
(* C14 *)

-----------------------------------------------------------------------------
(* C15 *)

\* the path of an absolute URL, query and fragment cut off
UrlPath(url) == Head(Split(Head(Split(url, <<"?">>)), <<"#">>))

\* the final segment of the path of the URL
FinalPathSegment(url) == Last(Split(UrlPath(url), <<"/">>))

\* what follows the last "/" of the whole URL, query included
AfterLastSlash(url) ==
    LET i == CHOOSE k \in 1..Len(url) :
                 url[k] = "/" /\ \A j \in (k + 1)..Len(url) : url[j] # "/"
    IN  SubSeq(url, i + 1, Len(url))

\* the handler the rule of the router names for a segment and a URL
HandlerFor(segment, url) ==
    IF segment = <<"h", "e", "a", "l", "t", "h">> THEN "health"
    ELSE IF Contains(url, <<"a", "p", "i", "/", "s", "t", "a", "t", "s">>)
    THEN "get_stats"
    ELSE IF segment = <<"w", "s">> THEN "stub.fetch"
    ELSE IF segment \in {<<>>, <<"d", "a", "s", "h", "b", "o", "a", "r", "d">>}
    THEN "ASSETS.fetch"
    ELSE "handle_honeypot_request"

\* C15: the router invokes exactly one handler per request, the one its rule
\* names for the final segment of the URL's path: health, else the stats
\* aggregator for a URL with the stats marker, else the coordinator's connect
\* for ws, else the asset for an empty segment or dashboard, else (and only
\* then) the honeypot flow.
C15_RoutedByFinalPathSegment ==
    call.fn = "on_fetch" =>
        /\ Len(call.handlers) = 1
        /\ call.handlers[1] = HandlerFor(FinalPathSegment(call.url), call.url)

\* What the router does: one handler per request, named by the rule for the
\* text after the last "/" of the URL, the query being part of that text.
C15_RoutedByTextAfterLastSlash ==
    call.fn = "on_fetch" =>
        /\ Len(call.handlers) = 1
        /\ call.handlers[1] = HandlerFor(AfterLastSlash(call.url), call.url)

-----------------------------------------------------------------------------
(* C16 *)

IsClassify == call.fn = "classify_request"

\* C16: the label of every verdict is "attack" if the score is at least 40
\* and "legit" if it is less; 40 itself is "attack".
C16_AttackIffScoreAtLeast40 ==
    IsClassify =>
        /\ call.result.label = (IF call.result.score >= 40 THEN "attack" ELSE "legit")
        /\ call.result.score = 40 => call.result.label = "attack"

\* a verdict with the score 40 exactly
C16_Witness ==
    /\ IsClassify
    /\ call.result.score = 40

-----------------------------------------------------------------------------
(* C17 *)

\* The scoring table: per row whether its condition holds for the
\* arguments, its weight and its tag, in the table's order.
ScoringTable(features, cf_bot_score) ==
    <<[holds |-> features.ua_parsed.is_bot,
       weight |-> 30, tag |-> "bot_user_agent"],
      [holds |-> features.sql_injection.risk_level = "high",
       weight |-> 40, tag |-> "sql_injection_high"],
      [holds |-> features.sql_injection.risk_level = "medium",
       weight |-> 25, tag |-> "sql_injection_medium"],
      [holds |-> features.path_traversal.risk_level = "high",
       weight |-> 40, tag |-> "path_traversal_high"],
      [holds |-> features.path_traversal.risk_level = "medium",
       weight |-> 25, tag |-> "path_traversal_medium"],
      [holds |-> features.sensitive_files.accesses_sensitive,
       weight |-> 35, tag |-> "sensitive_file_access"],
      [holds |-> features.common_exploits.risk_level = "high",
       weight |-> 35, tag |-> "exploit_patterns_high"],
      [holds |-> features.common_exploits.risk_level = "medium",
       weight |-> 20, tag |-> "exploit_patterns_medium"],
      [holds |-> features.path_entropy > 450,
       weight |-> 20, tag |-> "high_entropy"],
      [holds |-> /\ "suspicious_chars" \in DOMAIN features.path_chars
                 /\ features.path_chars["suspicious_chars"],
       weight |-> 15, tag |-> "suspicious_chars"],
      [holds |-> cf_bot_score < 30,
       weight |-> 20, tag |-> "cf_bot_score_low"]>>

\* the rows of a table whose condition holds, order kept
RECURSIVE Holding(_)
Holding(table) ==
    IF table = <<>> THEN <<>>
    ELSE IF Head(table).holds THEN <<Head(table)>> \o Holding(Tail(table))
    ELSE Holding(Tail(table))

RECURSIVE WeightSum(_)
WeightSum(rows) ==
    IF rows = <<>> THEN 0 ELSE Head(rows).weight + WeightSum(Tail(rows))

\* C17: the score of every verdict is the sum of the weights of the table
\* rows whose condition holds for the arguments, and reasons is the tags of
\* exactly those rows, each once, in the table's order.
C17_ScoreIsSumOfTableWeights ==
    IsClassify =>
        LET rows == Holding(ScoringTable(call.features, call.cf_bot_score))
        IN  /\ call.result.score = WeightSum(rows)
            /\ call.result.reasons = [i \in 1..Len(rows) |-> rows[i].tag]

\* a verdict for which eight rows hold: every signal, each detector high
C17_Witness ==
    /\ IsClassify
    /\ Len(call.result.reasons) = 8
    /\ call.result.score = 235

-----------------------------------------------------------------------------
(* C18 *)

\* C18: the confidence of every verdict is min(score/100, 1.0), it lies
\* between 0.0 and 1.0, and it is a number of at most 3 decimal places: the
\* value returned, which is rounded to 3 places, is the value before
\* rounding.  Confidences are in ten-thousandths.
C18_ConfidenceIsClampedRatio ==
    IsClassify =>
        LET ratio == call.result.score * 100
            clamped == IF ratio < 10000 THEN ratio ELSE 10000
        IN  /\ call.result.confidence = clamped
            /\ call.result.confidence >= 0
            /\ call.result.confidence <= 10000
            /\ clamped % 10 = 0

\* a verdict whose score is above 100, with the confidence 1.0
C18_Witness ==
    /\ IsClassify
    /\ call.result.score > 100
    /\ call.result.confidence = 10000

-----------------------------------------------------------------------------
(* C19 *)

\* C19: in a sequence of calls that starts with a clean bundle (no reason,
\* reputation at least 30) and sets one more signal before each further
\* call, the first further call scores strictly more than the clean one and
\* the second strictly more than the first.
C19_EachSignalRaisesScore ==
    (IsClassify /\ call.earlier # <<>>) =>
        LET scores == [i \in 1..Len(call.earlier) |-> call.earlier[i].score]
                          \o <<call.result.score>>
        IN  /\ call.earlier[1].reasons = <<>>
            /\ \A i \in 1..(Len(scores) - 1) : scores[i] < scores[i + 1]

\* the third call of such a sequence: the sensitive-file signal was set
\* after another one
C19_Witness ==
    /\ IsClassify
    /\ Len(call.earlier) = 2
    /\ call.features.sensitive_files.accesses_sensitive
    /\ call.earlier[2].reasons # <<"sensitive_file_access">>
    /\ Len(call.earlier[2].reasons) = 1

-----------------------------------------------------------------------------
(* C20 *)

\* the scenario: the detector applied to the attack path, or the workflow
\* run with the reputation 15
IsAttackScenarioDetection ==
    /\ call.fn = "detect_sql_injection"
    /\ call.path \o call.query_string \in
           {AttackPath, SubSeq(AttackPath, 1, 12) \o Drop(AttackPath, 13)}

IsAttackScenarioVerdict ==
    /\ call.fn = "attack_detection_workflow"
    /\ call.cf_bot_score = AttackBotScore

\* C20 as stated: for the path /admin/login?user=admin' OR '1'='1, the user
\* agent curl/7.68.0 and the reputation 15 the SQL detector reports the
\* risk high, and the verdict is an attack with a confidence above 0.3
\* whose reasons include sql_injection_high.
C20_ScenarioSqlRiskHigh ==
    /\ IsAttackScenarioDetection => call.result.risk_level = "high"
    /\ IsAttackScenarioVerdict =>
           /\ call.features.sql_injection.risk_level = "high"
           /\ call.result.label = "attack"
           /\ call.result.confidence > 3000
           /\ InList("sql_injection_high", call.result.reasons)

\* C20, amended: for that request the SQL detector finds one pattern
\* (' or ') and reports the risk medium, and the verdict is an attack with
\* a confidence above 0.3 whose reasons include sql_injection_medium and
\* not sql_injection_high.
C20_ScenarioSqlRiskMedium ==
    /\ IsAttackScenarioDetection =>
           /\ call.result.has_sql_pattern
           /\ call.result.sql_pattern_count = 1
           /\ call.result.risk_level = "medium"
    /\ IsAttackScenarioVerdict =>
           /\ call.features.sql_injection.risk_level = "medium"
           /\ call.features.ua_parsed.is_bot
           /\ call.result.label = "attack"
           /\ call.result.confidence > 3000
           /\ InList("sql_injection_medium", call.result.reasons)
           /\ ~InList("sql_injection_high", call.result.reasons)

\* the workflow has classified the scenario's request
C20_Witness ==
    /\ IsAttackScenarioVerdict
    /\ call.result.score = 110

-----------------------------------------------------------------------------
(* C21 *)

\* the keys of self.session_ids that belong to the sessions of a list
IdsOf(lst) == {Id(lst[i]) : i \in 1..Len(lst)}

\* C21: the identifier mapping has an entry for exactly the sessions of the
\* live set: every live session has one, and none is left for a session
\* removed by close, by error or by the pruning of broadcast.
C21_IdsExactlyForLiveSessions ==
    DOMAIN session_ids = IdsOf(sessions)

\* What holds: every live session has its identifier; the mapping may keep
\* entries of sessions that are gone.
C21_LiveSessionsHaveIds ==
    IdsOf(sessions) \subseteq DOMAIN session_ids

-----------------------------------------------------------------------------
(* C22 *)

\* C22: no session is in the live set twice, and no two sessions of the
\* live set have the same identifier.
C22_NoDuplicateSessionOrIdentifier ==
    \A i, j \in 1..Len(sessions) :
        i # j =>
            /\ sessions[i] # sessions[j]
            /\ session_ids[Id(sessions[i])] # session_ids[Id(sessions[j])]

\* two sessions are live, the second one connected after a third was
\* disconnected
C22_Witness ==
    /\ Len(sessions) = 2
    /\ created = 3
    /\ last.op = "fetch"
    /\ last.status = 101

-----------------------------------------------------------------------------
(* C23 *)

\* C23: a step that handles a control message, of whatever kind and also
\* when the handling raises, leaves the live set and the identifier mapping
\* as they were; a step that changes either is a connect, a close, an error
\* or the pruning that ends a broadcast.
C23_OnlyConnectDisconnectPruneChange ==
    [][/\ last'.op = "message" => UNCHANGED <<sessions, session_ids>>
       /\ <<sessions, session_ids>>' # <<sessions, session_ids>> =>
              \/ last'.op = "fetch" /\ last'.status = 101
              \/ last'.op \in {"close", "error"}
              \/ last'.op = "broadcast" /\ ~last.done /\ last'.done]_vars

\* a message of a live session has been handled whose handling raised, in
\* a live set of two
C23_Witness ==
    /\ IsMessage
    /\ last.raised
    /\ InList(last.ws, sessions)
    /\ Len(sessions) = 2
    /\ sessions = last.pre_sessions
    /\ session_ids = last.pre_ids

-----------------------------------------------------------------------------
(* C24 *)

\* C24: a stale session (its transport is dead, no close or error needed)
\* is gone from the live set when the first broadcast call made after it
\* became stale has returned; and while broadcast keeps being called every
\* stale session of the live set is removed at some time.
C24_StaleSessionPruned ==
    /\ [](BroadcastReturned =>
              \A s \in last.pre_broken : ~InList(s, sessions))
    /\ \A s \in Sockets :
           (s \in broken /\ InList(s, sessions)) ~> ~InList(s, sessions)

\* a broadcast has returned that began with a stale session between two
\* live ones and pruned it
C24_Witness ==
    /\ BroadcastReturned
    /\ Len(last.pre_sessions) = 3
    /\ last.pre_sessions[2] \in last.pre_broken
    /\ Len(sessions) = 2

-----------------------------------------------------------------------------
(* C25 *)

\* C25: between the start of a broadcast pass and the end of its pruning no
\* connect and no disconnect takes effect: during the pass the live set and
\* the identifier mapping are those of its start, every step of the pass is
\* the broadcast's own, and when the call has returned no session of the
\* start has been skipped or sent to twice and only those whose send failed
\* have left the set.
C25_NoInterleavingWithBroadcast ==
    /\ [](pc = "broadcast" =>
              /\ IsBroadcast /\ ~last.done
              /\ sessions = last.pre_sessions
              /\ session_ids = last.pre_ids)
    /\ [][pc = "broadcast" =>
              /\ last'.op = "broadcast"
              /\ session_ids' = session_ids
              /\ sessions' # sessions => pc' = "idle" /\ last'.done]_vars
    /\ [](BroadcastReturned =>
              /\ \A i \in 1..Len(last.pre_sessions) :
                     Cardinality(AttemptsOn(last.pre_sessions[i])) = 1
              /\ sessions = Without(last.pre_sessions, FailedSessions))

\* a pass over three sessions is at its second, while close and error
\* events of all three are waiting
C25_Witness ==
    /\ pc = "broadcast"
    /\ Len(sessions) = 3
    /\ idx = 2

-----------------------------------------------------------------------------
(* C29 *)

\* the accepted sockets that are not in a list: on_fetch appends every
\* socket it accepts, so these have been removed from it
RemovedFrom(lst) == {s \in Accepted : ~InList(s, lst)}

\* C29: a session that has left the live set, by close, error or pruning,
\* is in it in no later state; a broadcast attempts no send on a session
\* that was gone when it started; a control message arriving from such a
\* session is handled as any other, its first send being the reply to it,
\* and the count of a stats reply is the length of the live set, which does
\* not contain it.
C29_RemovedSessionStaysOut ==
    /\ [][RemovedFrom(sessions) \subseteq RemovedFrom(sessions')]_vars
    /\ [](IsBroadcast =>
              \A s \in RemovedFrom(last.pre_sessions) : AttemptsOn(s) = {})
    /\ []((IsMessage /\ last.ws \in RemovedFrom(sessions)) =>
              /\ sessions = last.pre_sessions
              /\ Len(last.sent) >= 1
              /\ last.sent[1].to = last.ws
              /\ LastParsesAsObject =>
                     C8_IsReplyFor(last.sent[1].frame, LastType, Len(sessions)))

\* get_stats of a removed session has been answered with the count 1
C29_Witness ==
    /\ IsMessage
    /\ last.ws \in RemovedFrom(sessions)
    /\ LastParsesAsObject
    /\ LastType = "get_stats"
    /\ last.sent[1].ok
    /\ last.sent[1].frame.json.total_connections = 1
    /\ Len(sessions) = 1

-----------------------------------------------------------------------------
(* C28 *)

\* the bundle's only triggered signal is the sensitive-file one and the
\* reputation is the neutral 50
OnlySensitiveAtNeutral ==
    /\ IsClassify
    /\ call.cf_bot_score = 50
    /\ call.features.sensitive_files.accesses_sensitive
    /\ ~call.features.ua_parsed.is_bot
    /\ ~call.features.sql_injection.has_sql_pattern
    /\ ~call.features.path_traversal.has_traversal
    /\ ~call.features.common_exploits.has_exploits
    /\ call.features.path_entropy <= 450
    /\ ~DictGet(call.features.path_chars, "suspicious_chars", FALSE)

\* C28: sensitive file access alone triggers the attack label: such a
\* verdict has the reason sensitive_file_access, a score of at least 35 and
\* the label attack.
C28_SensitiveAloneIsAttack ==
    OnlySensitiveAtNeutral =>
        /\ InList("sensitive_file_access", call.result.reasons)
        /\ call.result.score >= 35
        /\ call.result.label = "attack"

\* What the classifier returns for such a bundle: that one reason, the
\* score 35, and the label legit.
C28_SensitiveAloneIsLegit ==
    OnlySensitiveAtNeutral =>
        /\ call.result.reasons = <<"sensitive_file_access">>
        /\ call.result.score = 35
        /\ call.result.label = "legit"

-----------------------------------------------------------------------------
(* C30 *)

\* the signal category a reason tag belongs to
ReasonCategory(tag) ==
    CASE tag = "bot_user_agent" -> "bot"
      [] tag \in {"sql_injection_high", "sql_injection_medium"} -> "sql"
      [] tag \in {"path_traversal_high", "path_traversal_medium"} -> "traversal"
      [] tag = "sensitive_file_access" -> "sensitive"
      [] tag \in {"exploit_patterns_high", "exploit_patterns_medium"} -> "exploits"
      [] tag = "high_entropy" -> "entropy"
      [] tag = "suspicious_chars" -> "suspicious"
      [] tag = "cf_bot_score_low" -> "reputation"

\* every signal fires, the three tiered ones at high
AllSignalsAtHighest ==
    /\ call.features.ua_parsed.is_bot
    /\ call.features.sql_injection.risk_level = "high"
    /\ call.features.path_traversal.risk_level = "high"
    /\ call.features.sensitive_files.accesses_sensitive
    /\ call.features.common_exploits.risk_level = "high"
    /\ call.features.path_entropy > 450
    /\ DictGet(call.features.path_chars, "suspicious_chars", FALSE)
    /\ call.cf_bot_score < 30

\* C30: the score of every verdict is a multiple of 5 from 0 to 235, it is
\* 235 exactly when all eight signals fire at their highest tier, and no
\* two reasons belong to the same signal category.
C30_ScoreMultipleOf5UpTo235 ==
    IsClassify =>
        /\ call.result.score % 5 = 0
        /\ call.result.score >= 0
        /\ call.result.score <= 235
        /\ call.result.score = 235 <=> AllSignalsAtHighest
        /\ Len(call.result.reasons) <= 8
        /\ \A i, j \in 1..Len(call.result.reasons) :
               i # j => ReasonCategory(call.result.reasons[i])
                            # ReasonCategory(call.result.reasons[j])

\* the verdict of a bundle with every signal at its highest tier
C30_Witness ==
    /\ IsClassify
    /\ AllSignalsAtHighest
    /\ call.result.confidence = 10000

-----------------------------------------------------------------------------
(* C26 *)

\* the entries of a vocabulary that occur in the lower-cased input
Occurring(vocabulary, input) ==
    {entry \in vocabulary : Contains(Lower(input), entry)}

Range(seq) == {seq[i] : i \in 1..Len(seq)}

ExploitVocabulary ==
    UNION {Range(exploit_patterns[n].patterns) : n \in 1..Len(exploit_patterns)}

\* the tier of a count, high from the given number of matches on
TierOf(count, high) ==
    IF count >= high THEN "high" ELSE IF count >= 1 THEN "medium" ELSE "low"

\* C26: the count a detector reports is the number of distinct entries of
\* its vocabulary that occur in the lower-cased input, its tier follows
\* from the count alone (SQL injection: high from 3; path traversal: high
\* from 2; common exploits: high from a total of 3; medium from 1, low at
\* 0), and its flag is set exactly when the tier is not low.
C26_CountsAndTiers ==
    /\ call.fn = "detect_sql_injection" =>
           LET n == Cardinality(Occurring(Range(sql_patterns),
                                          call.path \o call.query_string))
           IN  /\ call.result.sql_pattern_count = n
               /\ call.result.risk_level = TierOf(n, 3)
               /\ call.result.has_sql_pattern <=> call.result.risk_level # "low"
    /\ call.fn = "detect_path_traversal" =>
           LET n == Cardinality(Occurring(Range(traversal_patterns), call.path))
           IN  /\ call.result.traversal_count = n
               /\ call.result.risk_level = TierOf(n, 2)
               /\ call.result.has_traversal <=> call.result.risk_level # "low"
    /\ call.fn = "detect_common_exploits" =>
           LET n == Cardinality(Occurring(ExploitVocabulary, call.path))
           IN  /\ call.result.total_patterns = n
               /\ call.result.risk_level = TierOf(n, 3)
               /\ call.result.has_exploits <=> call.result.risk_level # "low"

\* the traversal detector has found two entries in a path written in upper
\* case, and reports high
C26_Witness ==
    /\ call.fn = "detect_path_traversal"
    /\ call.path # Lower(call.path)
    /\ call.result.traversal_count = 2
    /\ call.result.risk_level = "high"

-----------------------------------------------------------------------------
(* C27 *)

IsAnalyze == call.fn = "analyze_path_characteristics"

\* C27: for a path that begins with "/", the result for a protocol and host
\* prefix followed by the path is the result for the path alone; and the
\* result for the empty path is the empty one, not a record of zeros.
C27_PrefixStrippedBeforeCounting ==
    IsAnalyze =>
        IF call.path = <<>>
        THEN DOMAIN call.alone = {}
        ELSE /\ Head(call.path) = "/"
             /\ DOMAIN call.alone = DOMAIN call.prefixed
             /\ \A k \in DOMAIN call.alone : call.alone[k] = call.prefixed[k]

\* What holds: the same for the paths without "://" in them; and the result
\* for a prefixed path is always that of counting the path as it is.
C27_PrefixStrippedUnlessPathHasProtocol ==
    IsAnalyze =>
        IF call.path = <<>>
        THEN DOMAIN call.alone = {}
        ELSE /\ call.prefixed.length = Len(call.path)
             /\ call.prefixed.num_slashes = Count(call.path, "/")
             /\ ~Contains(call.path, <<":", "/", "/">>) =>
                    /\ DOMAIN call.alone = DOMAIN call.prefixed
                    /\ \A k \in DOMAIN call.alone :
                           call.alone[k] = call.prefixed[k]

=============================================================================
